---------------------------- MODULE Spec2Model ----------------------------
(***************************************************************************)
(* The per-connection turn orchestrator of the viva server: one WebSocket  *)
(* connection task (main.py websocket_viva_endpoint), the recognizer       *)
(* listener task it spawns (SarvamASRService._listen), the session         *)
(* document in the store, the recognizer service and the client transport. *)
(* One action is one stretch of code between two awaits of a task.         *)
(***************************************************************************)
EXTENDS Integers, Sequences, FiniteSets, TLC

\* ------------------------------------------------------------------ bounds
\* audio frames / text messages the client sends on one connection
MaxFrames == 2
\* audio chunks the synthesizer yields for one message, at most
MaxChunks == 2

\* ------------------------------------------------------------ value sets
\* final-transcript texts the recognizer can emit ("" is an empty transcript)
Utterances == {"answer"}
\* what the dialogue generator can return (LLMEvaluationOutput)
LLMOutputs == {[evaluation |-> "feedback", new_question |-> "question"]}
\* gemini_llm_service.py line 103: the fixed evaluation of the first question
Placeholder == "Let's begin."

\* Optional[LLMEvaluation]: <<>> is None, <<e>> is the evaluation e
NoEvaluation == <<>>

\* models.py Message: speaker, text, timestamp, ai_evaluation
Message(speaker, text, evaluation, now) ==
    [speaker |-> speaker, text |-> text, timestamp |-> now,
     ai_evaluation |-> evaluation]

\* the transcript a session document can hold when the connection is opened:
\* empty (a new session) or an opening question already asked (a resumed one)
StoredOpening ==
    Message("ai", <<"question">>,
            <<[evaluation |-> Placeholder, new_question |-> "question"]>>, 1)
InitialTranscripts == {<<>>, <<StoredOpening>>}

VARIABLES
    \* --- the store (one session document)
    dbExists,           \* the document with this _id exists
    dbStatus,           \* its status field
    dbTranscript,       \* its transcript array
    \* --- VivaOrchestrator
    cpc,                \* position of the connection task
    session_collection, \* self.session_collection is set
    viva_session,       \* self.viva_session is set
    transcript,         \* self.viva_session.transcript (in-memory copy)
    is_processing_llm,  \* the turn lock
    \* --- SarvamASRService
    asr_ws,             \* self.ws is set
    is_connected,       \* self._is_connected
    ws_context_manager, \* self.ws_context_manager is set
    listener_task,      \* self._listener_task is set
    lpc,                \* position of the listener task
    cancelled,          \* cancel() was called on the listener task
    \* --- locals of the two tasks
    cmessage,           \* start_viva: the message being saved / streamed
    csent,              \* start_viva: audio chunks sent so far
    cframe,             \* handle_audio_chunk: the frame being forwarded
    lmessage,           \* on_transcript_received: message being saved / streamed
    lsent,              \* on_transcript_received: audio chunks sent so far
    student_answer,     \* on_transcript_received: its transcript argument
    \* --- the recognizer service (remote end)
    asrOpen,            \* the recognizer connection is open
    asrRecvd,           \* frames the recognizer received, in order
    asrPending,         \* received frames it has not yet turned into an event
    asrOut,             \* events it emitted that _listen has not read yet
    \* --- the client transport
    wsState,            \* "open", "client_gone", "closed_1008", "closed_1011"
    wsOut,              \* what was sent to the client, in order
    nextFrame,          \* number of the next inbound frame
    delivered,          \* inbound audio frames, with lock and type at receipt
    \* --- observation
    now,                \* the clock Message timestamps are read from
    loaded,             \* the transcript initialize() loaded
    log                 \* the steps of the latest generate/persist/synthesize cycle

vars == <<dbExists, dbStatus, dbTranscript, cpc, session_collection,
          viva_session, transcript, is_processing_llm, asr_ws, is_connected,
          ws_context_manager, listener_task, lpc, cancelled, cmessage, csent,
          cframe, lmessage, lsent, student_answer, asrOpen, asrRecvd,
          asrPending, asrOut, wsState, wsOut, nextFrame, delivered, now,
          loaded, log>>

storeVars == <<dbExists, dbStatus, dbTranscript>>
orchVars  == <<session_collection, viva_session, transcript, is_processing_llm>>
asrVars   == <<asr_ws, is_connected, ws_context_manager, listener_task>>
connLocals == <<cmessage, csent, cframe>>
listLocals == <<lmessage, lsent, student_answer>>
remoteVars == <<asrOpen, asrRecvd, asrPending, asrOut>>
clientVars == <<wsState, wsOut, nextFrame, delivered>>

NoMessage == <<>>

Init ==
    /\ dbExists \in BOOLEAN
    /\ dbStatus = "active"
    /\ dbTranscript \in (IF dbExists THEN InitialTranscripts ELSE {<<>>})
    /\ cpc = "accepted"
    /\ session_collection = FALSE
    /\ viva_session = FALSE
    /\ transcript = <<>>
    /\ is_processing_llm = FALSE
    /\ asr_ws = FALSE
    /\ is_connected = FALSE
    /\ ws_context_manager = FALSE
    /\ listener_task = FALSE
    /\ lpc = "none"
    /\ cancelled = FALSE
    /\ cmessage = NoMessage
    /\ csent = 0
    /\ cframe = 0
    /\ lmessage = NoMessage
    /\ lsent = 0
    /\ student_answer = ""
    /\ asrOpen = FALSE
    /\ asrRecvd = <<>>
    /\ asrPending = 0
    /\ asrOut = <<>>
    /\ wsState = "open"
    /\ wsOut = <<>>
    /\ nextFrame = 1
    /\ delivered = <<>>
    /\ now = Len(dbTranscript) + 1
    /\ loaded = <<>>
    /\ log = <<>>


\* ------------------------------------------------------- pure code pieces
\* save_message_to_db line 182: self.viva_session.transcript.append(message)
LocalAppend(t, m) == Append(t, m)

\* the message is put at the front of the array
Push_Front(t, m) == <<m>> \o t

\* save_message_to_db lines 185-188: update_one with $push on the array
Push(t, m) == Append(t, m)

\* save_message_to_db lines 172-173: the guard that raises
DatabaseInitialized(coll, sess) == coll /\ sess

\* the transcript is not looked at: the opening question is always asked
ResumesExisting_Never(t) == FALSE

\* start_viva line 71: len(self.viva_session.transcript) > 0
ResumesExisting(t) == Len(t) > 0

\* the lock is not consulted
ForwardsAudio_Always(lock) == TRUE

\* handle_audio_chunk line 98: self.asr_service and not self.is_processing_llm
\* (asr_service is set by the constructor and never cleared)
ForwardsAudio(lock) == ~lock

\* send_audio_chunk line 82, negated: not (not _is_connected or not ws)
CanSend(connected, ws) == connected /\ ws

\* the generator's own evaluation text is kept
FirstQuestion_Unchanged(out) == out

\* get_ai_first_question line 103: the evaluation is overwritten
FirstQuestion(out) == [out EXCEPT !.evaluation = Placeholder]

\* start_viva as it would be if it saved the opening question without the
\* generator's response attached
OpeningMessage_NoEvaluation(resp, t) ==
    Message("ai", <<resp.new_question>>, NoEvaluation, t)

\* start_viva lines 85-89: text is the question alone
OpeningMessage(resp, t) == Message("ai", <<resp.new_question>>, <<resp>>, t)

\* on_transcript_received line 116: the student's message, no evaluation
StudentMessage(text, t) == Message("user", <<text>>, NoEvaluation, t)

\* on_transcript_received lines 127-132: f"{evaluation} {new_question}"
ExaminerMessage(resp, t) ==
    Message("ai", <<resp.evaluation, resp.new_question>>, <<resp>>, t)

\* the lock is never taken
LockOnEntry_Unset == FALSE

\* on_transcript_received line 113: the value the lock takes on entry
LockOnEntry == TRUE

\* the lock is released on the success path only
LockOnExit_SuccessOnly(failed) == failed

\* on_transcript_received lines 140-142: the finally block, on every exit
\* (failed tells how the try block was left; the code does not look at it)
LockOnExit(failed) == FALSE

\* positions of the listener task inside on_transcript_received: awaiting
\* the student's update_one, get_ai_evaluation, the examiner's update_one,
\* the synthesizer stream and the sends
TurnStates == {"t_save_user", "t_gen", "t_save_ai", "t_tts"}

\* positions of the connection task inside start_viva: awaiting
\* get_ai_first_question, update_one, the synthesizer stream and the sends
OpeningStates == {"sv_gen", "sv_save", "sv_tts"}

\* the loop starts the callback without awaiting it
ReadsNext_NotAwaited(pc) == pc \in {"listen"} \cup TurnStates

\* _listen lines 61-71: the callback is awaited inside the loop, so the next
\* message is read only when the listener is not inside a turn
ReadsNext(pc) == pc = "listen"

\* main.py lines 133-140: which branch of the receive loop takes the data
IsAudioBranch(type) == type = "bytes"

AudioItem(m) == [kind |-> "audio", of |-> m.timestamp]
SpeechEnd(m) == [kind |-> "speech_end", of |-> m.timestamp]

\* how the synthesizer's stream comes to its end: its "final" event, or an
\* error of the synthesizer connection in mid-stream
StreamEnds == {"final", "error"}

\* text_to_audio_stream as it would be without its except clause
StreamEnd_Propagates(how) == IF how = "error" THEN "raised" ELSE "exhausted"

\* text_to_audio_stream lines 43-56: what the consumer of the generator sees
\* at the end of the stream; an error is caught inside the generator, which
\* then just stops yielding
StreamEnd(how) == "exhausted"

\* what the recognizer stream can carry
ASREvents ==
    {[type |-> "speech_start", text |-> ""],
     [type |-> "speech_end", text |-> ""],
     [type |-> "transcript", text |-> ""]}
    \cup {[type |-> "transcript", text |-> u] : u \in Utterances}

\* an exception leaves the try block of websocket_viva_endpoint (main.py
\* lines 142-151): WebSocketDisconnect is only logged, any other exception
\* closes the socket with 1011; then the finally block runs disconnect()
AfterException(kind, ws) ==
    IF kind = "Exception" /\ ws = "open" THEN "closed_1011" ELSE ws

\* --------------------------------------------------- the connection task
\* initialize(): get_db() raises
InitializeNoDatabase ==
    /\ cpc = "accepted"
    /\ cpc' = "init_failed"
    /\ wsState' = IF wsState = "open" THEN "closed_1008" ELSE wsState
    /\ UNCHANGED <<storeVars, orchVars, asrVars, lpc, cancelled, connLocals,
                   listLocals, remoteVars, wsOut, nextFrame, delivered, now,
                   loaded, log>>

\* the endpoint as it would be if the failed initialize() were handled inside
\* the try block, whose finally runs disconnect()
InitializeNotFound_Disconnects ==
    /\ cpc = "accepted"
    /\ session_collection' = TRUE
    /\ cpc' = "disconnect"
    /\ wsState' = IF wsState = "open" THEN "closed_1008" ELSE wsState
    /\ UNCHANGED <<storeVars, viva_session, transcript, is_processing_llm,
                   asrVars, lpc, cancelled, connLocals, listLocals,
                   remoteVars, wsOut, nextFrame, delivered, now, loaded, log>>

\* initialize(): ObjectId() or find_one raises, or find_one returns nothing
InitializeNotFound ==
    /\ cpc = "accepted"
    /\ session_collection' = TRUE
    /\ cpc' = "init_failed"
    /\ wsState' = IF wsState = "open" THEN "closed_1008" ELSE wsState
    /\ UNCHANGED <<storeVars, viva_session, transcript, is_processing_llm,
                   asrVars, lpc, cancelled, connLocals, listLocals,
                   remoteVars, wsOut, nextFrame, delivered, now, loaded, log>>

\* initialize() as it would be if a failed asr_service.connect() did not make
\* it return False
InitializeConnectFails_Ignored ==
    /\ cpc = "accepted"
    /\ dbExists
    /\ session_collection' = TRUE
    /\ viva_session' = TRUE
    /\ transcript' = dbTranscript
    /\ loaded' = dbTranscript
    /\ ws_context_manager' = TRUE
    /\ is_connected' = FALSE
    /\ cpc' = "initialized"
    /\ UNCHANGED <<storeVars, is_processing_llm, asr_ws, listener_task, lpc,
                   cancelled, connLocals, listLocals, remoteVars, clientVars,
                   now, log>>

\* initialize(): the session is loaded, asr_service.connect() raises
InitializeConnectFails ==
    /\ cpc = "accepted"
    /\ dbExists
    /\ session_collection' = TRUE
    /\ viva_session' = TRUE
    /\ transcript' = dbTranscript
    /\ loaded' = dbTranscript
    /\ ws_context_manager' = TRUE
    /\ is_connected' = FALSE
    /\ cpc' = "init_failed"
    /\ wsState' = IF wsState = "open" THEN "closed_1008" ELSE wsState
    /\ UNCHANGED <<storeVars, is_processing_llm, asr_ws, listener_task, lpc,
                   cancelled, connLocals, listLocals, remoteVars, wsOut,
                   nextFrame, delivered, now, log>>

\* initialize() returns True: session loaded, recognizer connected, listener
\* task created
InitializeOk ==
    /\ cpc = "accepted"
    /\ dbExists
    /\ session_collection' = TRUE
    /\ viva_session' = TRUE
    /\ transcript' = dbTranscript
    /\ loaded' = dbTranscript
    /\ ws_context_manager' = TRUE
    /\ asr_ws' = TRUE
    /\ is_connected' = TRUE
    /\ listener_task' = TRUE
    /\ lpc' = "listen"
    /\ asrOpen' = TRUE
    /\ cpc' = "initialized"
    /\ UNCHANGED <<storeVars, is_processing_llm, cancelled, connLocals,
                   listLocals, asrRecvd, asrPending, asrOut, clientVars, now,
                   log>>

\* start_viva() up to its first await
StartViva ==
    /\ cpc = "initialized"
    /\ viva_session
    /\ IF ResumesExisting(transcript)
       THEN /\ cpc' = "loop"
            /\ UNCHANGED log
       ELSE /\ cpc' = "sv_gen"
            /\ log' = <<"first_question_invoked">>
    /\ UNCHANGED <<storeVars, orchVars, asrVars, lpc, cancelled, connLocals,
                   listLocals, remoteVars, clientVars, now, loaded>>

\* get_ai_first_question returned; save_message_to_db runs up to update_one
StartVivaGenerated ==
    /\ cpc = "sv_gen"
    /\ \E out \in LLMOutputs :
        LET message == OpeningMessage(FirstQuestion(out), now) IN
        /\ DatabaseInitialized(session_collection, viva_session)
        /\ transcript' = LocalAppend(transcript, message)
        /\ cmessage' = message
    /\ now' = now + 1
    /\ log' = Append(log, "first_question_returned")
    /\ cpc' = "sv_save"
    /\ UNCHANGED <<storeVars, session_collection, viva_session,
                   is_processing_llm, asrVars, lpc, cancelled, csent, cframe,
                   listLocals, remoteVars, clientVars, loaded>>

\* get_ai_first_question or update_one raised: start_viva has no handler
StartVivaFails ==
    /\ cpc \in {"sv_gen", "sv_save"}
    /\ log' = Append(log, IF cpc = "sv_gen" THEN "generator_failed"
                                          ELSE "examiner_persist_failed")
    /\ wsState' = AfterException("Exception", wsState)
    /\ cpc' = "disconnect"
    /\ UNCHANGED <<storeVars, orchVars, asrVars, lpc, cancelled, connLocals,
                   listLocals, remoteVars, wsOut, nextFrame, delivered, now,
                   loaded>>

\* update_one returned; stream_ai_audio_to_client starts
StartVivaSaved ==
    /\ cpc = "sv_save"
    /\ dbTranscript' = Push(dbTranscript, cmessage)
    /\ log' = Append(log, "examiner_persisted")
    /\ csent' = 0
    /\ cpc' = "sv_tts"
    /\ UNCHANGED <<dbExists, dbStatus, orchVars, asrVars, lpc, cancelled,
                   cmessage, cframe, listLocals, remoteVars, clientVars, now,
                   loaded>>

\* the synthesizer yielded a chunk and send_bytes returned
StartVivaChunk ==
    /\ cpc = "sv_tts"
    /\ csent < MaxChunks
    /\ wsState = "open"
    /\ wsOut' = Append(wsOut, AudioItem(cmessage))
    /\ csent' = csent + 1
    /\ log' = Append(log, "audio")
    /\ UNCHANGED <<storeVars, cpc, orchVars, asrVars, lpc, cancelled,
                   cmessage, cframe, listLocals, remoteVars, wsState,
                   nextFrame, delivered, now, loaded>>

\* stream_ai_audio_to_client lines 154-160 inside start_viva: the synthesizer
\* stream ended; when the loop ends normally send_json sends the marker, an
\* exception out of the loop would leave start_viva for main.py
StartVivaSpeechEnd ==
    /\ cpc = "sv_tts"
    /\ wsState = "open"
    /\ \E how \in StreamEnds :
         LET failed == IF how = "error" THEN <<"synthesizer_failed">>
                                        ELSE <<>> IN
         IF StreamEnd(how) = "exhausted"
         THEN /\ wsOut' = Append(wsOut, SpeechEnd(cmessage))
              /\ log' = log \o failed \o <<"speech_end">>
              /\ cpc' = "loop"
              /\ UNCHANGED wsState
         ELSE /\ wsState' = AfterException("Exception", wsState)
              /\ log' = log \o failed
              /\ cpc' = "disconnect"
              /\ UNCHANGED wsOut
    /\ UNCHANGED <<storeVars, orchVars, asrVars, lpc, cancelled, connLocals,
                   listLocals, remoteVars, nextFrame, delivered, now, loaded>>

\* send_bytes or send_json raised inside start_viva
StartVivaSendFails ==
    /\ cpc = "sv_tts"
    /\ wsState # "open"
    /\ log' = Append(log, "send_failed")
    /\ cpc' = "disconnect"
    /\ UNCHANGED <<storeVars, orchVars, asrVars, lpc, cancelled, connLocals,
                   listLocals, remoteVars, clientVars, now, loaded>>

\* the shapes in which websocket.receive() can hand an audio frame to the
\* loop: a bytes object, or an ASGI message dict that carries the bytes
AudioTypes == {"bytes", "dict"}

\* main.py lines 131-135 with handle_audio_chunk and send_audio_chunk up to
\* the await of ws.transcribe: an audio frame arrives
ReceiveAudio ==
    /\ cpc = "loop"
    /\ wsState = "open"
    /\ nextFrame <= MaxFrames
    /\ \E type \in AudioTypes :
        /\ delivered' = Append(delivered,
               [frame |-> nextFrame, type |-> type,
                lock |-> is_processing_llm,
                connected |-> CanSend(is_connected, asr_ws)])
        /\ IF /\ IsAudioBranch(type)
              /\ ForwardsAudio(is_processing_llm)
              /\ CanSend(is_connected, asr_ws)
           THEN cframe' = nextFrame /\ cpc' = "transcribe"
           ELSE UNCHANGED <<cframe, cpc>>
    /\ nextFrame' = nextFrame + 1
    /\ UNCHANGED <<storeVars, orchVars, asrVars, lpc, cancelled, cmessage,
                   csent, listLocals, remoteVars, wsState, wsOut, now, loaded,
                   log>>

\* main.py lines 137-140: a text message (or a dict carrying one) is ignored
ReceiveText ==
    /\ cpc = "loop"
    /\ wsState = "open"
    /\ nextFrame <= MaxFrames
    /\ nextFrame' = nextFrame + 1
    /\ UNCHANGED <<storeVars, cpc, orchVars, asrVars, lpc, cancelled,
                   connLocals, listLocals, remoteVars, wsState, wsOut,
                   delivered, now, loaded, log>>

\* send_audio_chunk lines 92-96: ws.transcribe returned
Transcribed ==
    /\ cpc = "transcribe"
    /\ asrOpen
    /\ asrRecvd' = Append(asrRecvd, cframe)
    /\ asrPending' = asrPending + 1
    /\ cframe' = 0
    /\ cpc' = "loop"
    /\ UNCHANGED <<storeVars, orchVars, asrVars, lpc, cancelled, cmessage,
                   csent, listLocals, asrOpen, asrOut, clientVars, now, loaded,
                   log>>

\* send_audio_chunk as it would be without its except clause: the error of
\* ws.transcribe leaves handle_audio_chunk and the receive loop for main.py
\* lines 145-151
TranscribeFails_Propagates ==
    /\ cpc = "transcribe"
    /\ cframe' = 0
    /\ wsState' = AfterException("Exception", wsState)
    /\ cpc' = "disconnect"
    /\ UNCHANGED <<storeVars, orchVars, asrVars, lpc, cancelled, cmessage,
                   csent, listLocals, remoteVars, wsOut, nextFrame, delivered,
                   now, loaded, log>>

\* send_audio_chunk lines 97-98: ws.transcribe raised, the error is printed
TranscribeFails ==
    /\ cpc = "transcribe"
    /\ cframe' = 0
    /\ cpc' = "loop"
    /\ UNCHANGED <<storeVars, orchVars, asrVars, lpc, cancelled, cmessage,
                   csent, listLocals, remoteVars, clientVars, now, loaded, log>>

\* websocket.receive() raises once the client is gone: WebSocketDisconnect
\* (main.py line 142) or another exception (line 145, which tries to close)
ReceiveRaises ==
    /\ cpc = "loop"
    /\ wsState = "client_gone"
    /\ \E kind \in {"WebSocketDisconnect", "Exception"} :
        wsState' = AfterException(kind, wsState)
    /\ cpc' = "disconnect"
    /\ UNCHANGED <<storeVars, orchVars, asrVars, lpc, cancelled, connLocals,
                   listLocals, remoteVars, wsOut, nextFrame, delivered, now,
                   loaded, log>>

\* disconnect() as it would be with the status update placed before
\* asr_service.close()
DisconnectClose_StatusFirst ==
    /\ cpc = "disconnect"
    /\ dbStatus' = "completed"
    /\ IF listener_task
       THEN /\ cancelled' = TRUE
            /\ listener_task' = FALSE
       ELSE UNCHANGED <<cancelled, listener_task>>
    /\ ws_context_manager
    /\ cpc' = "aexit"
    /\ UNCHANGED <<dbExists, dbTranscript, orchVars, asr_ws, is_connected,
                   ws_context_manager, lpc, connLocals, listLocals, remoteVars,
                   clientVars, now, loaded, log>>

\* disconnect() -> asr_service.close() lines 104-110, up to the await of
\* __aexit__: the listener task is cancelled and forgotten
DisconnectClose ==
    /\ cpc = "disconnect"
    /\ IF listener_task
       THEN /\ cancelled' = TRUE
            /\ listener_task' = FALSE
       ELSE UNCHANGED <<cancelled, listener_task>>
    /\ ws_context_manager
    /\ cpc' = "aexit"
    /\ UNCHANGED <<storeVars, orchVars, asr_ws, is_connected,
                   ws_context_manager, lpc, connLocals, listLocals, remoteVars,
                   clientVars, now, loaded, log>>

\* close() lines 110-117: __aexit__ returned; then disconnect() line 200
DisconnectClosed ==
    /\ cpc = "aexit"
    /\ asrOpen' = FALSE
    /\ asr_ws' = FALSE
    /\ is_connected' = FALSE
    /\ session_collection
    /\ cpc' = "mark_completed"
    /\ UNCHANGED <<storeVars, orchVars, ws_context_manager, listener_task, lpc,
                   cancelled, connLocals, listLocals, asrRecvd, asrPending,
                   asrOut, clientVars, now, loaded, log>>

\* close() line 110: __aexit__ raised; the exception leaves close(),
\* disconnect() and the endpoint; whether the remote end got closed is open
DisconnectCloseFails ==
    /\ cpc = "aexit"
    /\ asrOpen' \in BOOLEAN
    /\ cpc' = "terminated"
    /\ UNCHANGED <<storeVars, orchVars, asrVars, lpc, cancelled, connLocals,
                   listLocals, asrRecvd, asrPending, asrOut, clientVars, now,
                   loaded, log>>

\* disconnect() lines 201-204: update_one $set status returned
MarkCompleted ==
    /\ cpc = "mark_completed"
    /\ dbStatus' = "completed"
    /\ cpc' = "terminated"
    /\ UNCHANGED <<dbExists, dbTranscript, orchVars, asrVars, lpc, cancelled,
                   connLocals, listLocals, remoteVars, clientVars, now, loaded,
                   log>>

\* disconnect() lines 201-204: update_one raised
MarkCompletedFails ==
    /\ cpc = "mark_completed"
    /\ cpc' = "terminated"
    /\ UNCHANGED <<storeVars, orchVars, asrVars, lpc, cancelled, connLocals,
                   listLocals, remoteVars, clientVars, now, loaded, log>>

\* ----------------------------------------------------- the listener task
\* _listen lines 61-71 and, for a transcript with text, on_transcript_received
\* lines 107-116 with save_message_to_db up to the await of update_one
ListenRead ==
    /\ ReadsNext(lpc)
    /\ ~cancelled
    /\ asrOut # <<>>
    /\ asrOut' = Tail(asrOut)
    /\ LET message == Head(asrOut) IN
       IF message.type = "transcript" /\ message.text # "" /\ viva_session
       THEN /\ is_processing_llm' = LockOnEntry
            /\ DatabaseInitialized(session_collection, viva_session)
            /\ student_answer' = message.text
            /\ lmessage' = StudentMessage(message.text, now)
            /\ transcript' = LocalAppend(transcript, lmessage')
            /\ now' = now + 1
            /\ log' = <<"lock_set">>
            /\ lsent' = 0
            /\ lpc' = "t_save_user"
       ELSE UNCHANGED <<is_processing_llm, student_answer, lmessage,
                        transcript, now, log, lsent, lpc>>
    /\ UNCHANGED <<storeVars, cpc, session_collection, viva_session, asrVars,
                   cancelled, connLocals, asrOpen, asrRecvd, asrPending,
                   clientVars, loaded>>

\* the generator is called without the student's message having been pushed
TurnStudentSaved_NotPersisted ==
    /\ lpc = "t_save_user"
    /\ ~cancelled
    /\ log' = log \o <<"student_persisted", "generator_invoked">>
    /\ lpc' = "t_gen"
    /\ UNCHANGED <<storeVars, cpc, orchVars, asrVars, cancelled, connLocals,
                   listLocals, remoteVars, clientVars, now, loaded>>

\* on_transcript_received lines 116-124: update_one returned, the generator
\* is called with the in-memory transcript as history
TurnStudentSaved ==
    /\ lpc = "t_save_user"
    /\ ~cancelled
    /\ dbTranscript' = Push(dbTranscript, lmessage)
    /\ log' = log \o <<"student_persisted", "generator_invoked">>
    /\ lpc' = "t_gen"
    /\ UNCHANGED <<dbExists, dbStatus, cpc, orchVars, asrVars, cancelled,
                   connLocals, listLocals, remoteVars, clientVars, now, loaded>>

\* on_transcript_received lines 119-132: get_ai_evaluation returned;
\* save_message_to_db runs up to the await of update_one
TurnGenerated ==
    /\ lpc = "t_gen"
    /\ ~cancelled
    /\ \E out \in LLMOutputs :
        /\ DatabaseInitialized(session_collection, viva_session)
        /\ lmessage' = ExaminerMessage(out, now)
        /\ transcript' = LocalAppend(transcript, lmessage')
    /\ now' = now + 1
    /\ log' = Append(log, "generator_returned")
    /\ lpc' = "t_save_ai"
    /\ UNCHANGED <<storeVars, cpc, session_collection, viva_session,
                   is_processing_llm, asrVars, cancelled, connLocals, lsent,
                   student_answer, remoteVars, clientVars, loaded>>

\* on_transcript_received lines 127-135: update_one returned, streaming starts
TurnExaminerSaved ==
    /\ lpc = "t_save_ai"
    /\ ~cancelled
    /\ dbTranscript' = Push(dbTranscript, lmessage)
    /\ log' = Append(log, "examiner_persisted")
    /\ lsent' = 0
    /\ lpc' = "t_tts"
    /\ UNCHANGED <<dbExists, dbStatus, cpc, orchVars, asrVars, cancelled,
                   connLocals, lmessage, student_answer, remoteVars,
                   clientVars, now, loaded>>

\* stream_ai_audio_to_client lines 154-156: a chunk was yielded and sent
TurnChunk ==
    /\ lpc = "t_tts"
    /\ ~cancelled
    /\ lsent < MaxChunks
    /\ wsState = "open"
    /\ wsOut' = Append(wsOut, AudioItem(lmessage))
    /\ lsent' = lsent + 1
    /\ log' = Append(log, "audio")
    /\ UNCHANGED <<storeVars, cpc, orchVars, asrVars, lpc, cancelled,
                   connLocals, lmessage, student_answer, remoteVars, wsState,
                   nextFrame, delivered, now, loaded>>

\* stream_ai_audio_to_client lines 158-160 and on_transcript_received lines
\* 140-142: the stream ended, the marker was sent, the finally block ran
TurnSpeechEnd ==
    /\ lpc = "t_tts"
    /\ ~cancelled
    /\ wsState = "open"
    /\ \E how \in StreamEnds :
         LET failed == IF how = "error" THEN <<"synthesizer_failed">>
                                        ELSE <<>> IN
         IF StreamEnd(how) = "exhausted"
         THEN /\ wsOut' = Append(wsOut, SpeechEnd(lmessage))
              /\ is_processing_llm' = LockOnExit(FALSE)
              /\ log' = log \o failed \o <<"speech_end", "lock_cleared">>
         ELSE /\ UNCHANGED wsOut
              /\ is_processing_llm' = LockOnExit(TRUE)
              /\ log' = log \o failed \o <<"lock_cleared">>
    /\ lpc' = "listen"
    /\ UNCHANGED <<storeVars, cpc, session_collection, viva_session,
                   transcript, asrVars, cancelled, connLocals, listLocals,
                   remoteVars, wsState, nextFrame, delivered, now, loaded>>

\* on_transcript_received as it would be if a failure to save the student's
\* message were only logged and the turn went on to the generator
TurnFails_StudentIgnored ==
    /\ lpc \in {"t_save_user", "t_gen", "t_save_ai"}
    /\ ~cancelled
    /\ IF lpc = "t_save_user"
       THEN /\ log' = log \o <<"student_persist_failed", "generator_invoked">>
            /\ lpc' = "t_gen"
            /\ UNCHANGED is_processing_llm
       ELSE /\ is_processing_llm' = LockOnExit(TRUE)
            /\ log' = log \o <<CASE lpc = "t_gen" -> "generator_failed"
                                 [] OTHER -> "examiner_persist_failed",
                               "lock_cleared">>
            /\ lpc' = "listen"
    /\ UNCHANGED <<storeVars, cpc, session_collection, viva_session,
                   transcript, asrVars, cancelled, connLocals, listLocals,
                   remoteVars, clientVars, now, loaded>>

\* on_transcript_received as it would be if a failed get_ai_evaluation were
\* tried once more with the same answer
TurnFails_Retries ==
    /\ lpc \in {"t_save_user", "t_gen", "t_save_ai"}
    /\ ~cancelled
    /\ IF lpc = "t_gen" /\ \A i \in DOMAIN log : log[i] # "generator_failed"
       THEN /\ log' = log \o <<"generator_failed", "generator_invoked">>
            /\ UNCHANGED <<is_processing_llm, lpc>>
       ELSE /\ is_processing_llm' = LockOnExit(TRUE)
            /\ log' = log \o <<CASE lpc = "t_save_user" ->
                                     "student_persist_failed"
                                 [] lpc = "t_gen" -> "generator_failed"
                                 [] OTHER -> "examiner_persist_failed",
                               "lock_cleared">>
            /\ lpc' = "listen"
    /\ UNCHANGED <<storeVars, cpc, session_collection, viva_session,
                   transcript, asrVars, cancelled, connLocals, listLocals,
                   remoteVars, clientVars, now, loaded>>

\* on_transcript_received lines 137-142: update_one or get_ai_evaluation
\* raised; the error is printed and the finally block runs
TurnFails ==
    /\ lpc \in {"t_save_user", "t_gen", "t_save_ai"}
    /\ ~cancelled
    /\ is_processing_llm' = LockOnExit(TRUE)
    /\ log' = log \o <<CASE lpc = "t_save_user" -> "student_persist_failed"
                         [] lpc = "t_gen" -> "generator_failed"
                         [] OTHER -> "examiner_persist_failed",
                       "lock_cleared">>
    /\ lpc' = "listen"
    /\ UNCHANGED <<storeVars, cpc, session_collection, viva_session,
                   transcript, asrVars, cancelled, connLocals, listLocals,
                   remoteVars, clientVars, now, loaded>>

\* on_transcript_received lines 137-142: send_bytes or send_json raised
TurnSendFails ==
    /\ lpc = "t_tts"
    /\ ~cancelled
    /\ wsState # "open"
    /\ is_processing_llm' = LockOnExit(TRUE)
    /\ log' = log \o <<"send_failed", "lock_cleared">>
    /\ lpc' = "listen"
    /\ UNCHANGED <<storeVars, cpc, session_collection, viva_session,
                   transcript, asrVars, cancelled, connLocals, listLocals,
                   remoteVars, clientVars, now, loaded>>

\* _listen lines 73-75: iterating the recognizer stream raised
ListenerError ==
    /\ lpc = "listen"
    /\ ~cancelled
    /\ is_connected' = FALSE
    /\ lpc' = "ended"
    /\ UNCHANGED <<storeVars, cpc, orchVars, asr_ws, ws_context_manager,
                   listener_task, cancelled, connLocals, listLocals,
                   remoteVars, clientVars, now, loaded, log>>

\* the cancellation requested by close() line 105 reaches the listener at
\* the await it is suspended in: CancelledError is no Exception, so only the
\* finally block of on_transcript_received runs. A store write that was in
\* flight may or may not have been applied.
ListenerCancelled ==
    /\ cancelled
    /\ lpc \in {"listen"} \cup TurnStates
    /\ lpc' = "cancelled"
    /\ IF lpc \in TurnStates
       THEN /\ is_processing_llm' = LockOnExit(TRUE)
            /\ log' = log \o <<"cancelled", "lock_cleared">>
       ELSE UNCHANGED <<is_processing_llm, log>>
    /\ IF lpc \in {"t_save_user", "t_save_ai"}
       THEN dbTranscript' \in {dbTranscript, Push(dbTranscript, lmessage)}
       ELSE UNCHANGED dbTranscript
    /\ UNCHANGED <<dbExists, dbStatus, cpc, session_collection, viva_session,
                   transcript, asrVars, cancelled, connLocals, listLocals,
                   remoteVars, clientVars, now, loaded>>

\* ------------------------------------------------------- the environment
\* the recognizer turns audio it received into an event of its stream
RecognizerEmits ==
    /\ asrOpen
    /\ asrPending > 0
    /\ asrPending' = asrPending - 1
    /\ \E e \in ASREvents : asrOut' = Append(asrOut, e)
    /\ UNCHANGED <<storeVars, cpc, orchVars, asrVars, lpc, cancelled,
                   connLocals, listLocals, asrOpen, asrRecvd, clientVars, now,
                   loaded, log>>

\* the client goes away (or the transport breaks): sends and receives raise
ClientDisconnects ==
    /\ wsState = "open"
    /\ cpc \notin {"init_failed", "terminated"}
    /\ wsState' = "client_gone"
    /\ UNCHANGED <<storeVars, cpc, orchVars, asrVars, lpc, cancelled,
                   connLocals, listLocals, remoteVars, wsOut, nextFrame,
                   delivered, now, loaded, log>>

Next ==
    \/ InitializeNoDatabase
    \/ InitializeNotFound
    \/ InitializeConnectFails
    \/ InitializeOk
    \/ StartViva
    \/ StartVivaGenerated
    \/ StartVivaFails
    \/ StartVivaSaved
    \/ StartVivaChunk
    \/ StartVivaSpeechEnd
    \/ StartVivaSendFails
    \/ ReceiveAudio
    \/ ReceiveText
    \/ Transcribed
    \/ TranscribeFails
    \/ ReceiveRaises
    \/ DisconnectClose
    \/ DisconnectClosed
    \/ DisconnectCloseFails
    \/ MarkCompleted
    \/ MarkCompletedFails
    \/ ListenRead
    \/ TurnStudentSaved
    \/ TurnGenerated
    \/ TurnExaminerSaved
    \/ TurnChunk
    \/ TurnSpeechEnd
    \/ TurnFails
    \/ TurnSendFails
    \/ ListenerError
    \/ ListenerCancelled
    \/ RecognizerEmits
    \/ ClientDisconnects

Spec == Init /\ [][Next]_vars

\* A later connection opened on the identifier of a session that an earlier
\* connection has left completed: disconnect() (lines 200-204) has set the
\* status, and the transcript is whatever that connection stored before.
\* A new orchestrator is constructed for every connection, so everything but
\* the store starts as in Init.
InitLater ==
    /\ dbExists = TRUE
    /\ dbStatus = "completed"
    /\ dbTranscript \in InitialTranscripts
    /\ cpc = "accepted"
    /\ session_collection = FALSE
    /\ viva_session = FALSE
    /\ transcript = <<>>
    /\ is_processing_llm = FALSE
    /\ asr_ws = FALSE
    /\ is_connected = FALSE
    /\ ws_context_manager = FALSE
    /\ listener_task = FALSE
    /\ lpc = "none"
    /\ cancelled = FALSE
    /\ cmessage = NoMessage
    /\ csent = 0
    /\ cframe = 0
    /\ lmessage = NoMessage
    /\ lsent = 0
    /\ student_answer = ""
    /\ asrOpen = FALSE
    /\ asrRecvd = <<>>
    /\ asrPending = 0
    /\ asrOut = <<>>
    /\ wsState = "open"
    /\ wsOut = <<>>
    /\ nextFrame = 1
    /\ delivered = <<>>
    /\ now = Len(dbTranscript) + 1
    /\ loaded = <<>>
    /\ log = <<>>

SpecLater == InitLater /\ [][Next]_vars

\* what a student says on another connection
OtherAnswer == "another answer"

\* A second connection opened on the same session identifier: main.py lines
\* 111-114 construct an orchestrator for every connection and keep no record
\* of the sessions that have one, and initialize() loads any document that
\* exists.  The other orchestrator resumed the session (its transcript was
\* not empty) and a turn of it saves its student's message:
\* save_message_to_db lines 185-188, seen from this connection as a push to
\* the stored transcript.
OtherConnectionPersists ==
    /\ dbExists
    /\ dbTranscript # <<>>
    /\ \A i \in DOMAIN dbTranscript : dbTranscript[i].text # <<OtherAnswer>>
    /\ dbTranscript' = Push(dbTranscript, StudentMessage(OtherAnswer, now))
    /\ now' = now + 1
    /\ UNCHANGED <<dbExists, dbStatus, cpc, orchVars, asrVars, lpc, cancelled,
                   connLocals, listLocals, remoteVars, clientVars, loaded,
                   log>>

SpecShared == Init /\ [][Next \/ OtherConnectionPersists]_vars

\* the steps of the listener task inside a turn: every await of
\* on_transcript_received returns or raises, or takes the cancellation
TurnStep ==
    \/ TurnStudentSaved
    \/ TurnGenerated
    \/ TurnExaminerSaved
    \/ TurnChunk
    \/ TurnSpeechEnd
    \/ TurnFails
    \/ TurnSendFails
    \/ (ListenerCancelled /\ lpc \in TurnStates)

\* the event loop resumes a task whose await has completed, and every call a
\* turn makes to a collaborator returns or fails
SpecFair == Spec /\ WF_vars(TurnStep)

\* ------------------------------------------------------------ the claims
Range(q) == {q[i] : i \in DOMAIN q}

Increasing(q) ==
    \A i, j \in DOMAIN q : i < j => q[i].timestamp < q[j].timestamp

OpeningInFlight == cpc \in OpeningStates
TurnInFlight == lpc \in TurnStates

\* the step is the start of a transcript-driven cycle
TurnBegins == lpc' = "t_save_user" /\ now' # now

\* C1: a transcript-driven cycle never runs while the opening-question cycle
\* runs, and a transcript-driven cycle only starts when no cycle is in flight.
C1_OneCycleAtATime ==
    /\ [](~(OpeningInFlight /\ TurnInFlight))
    /\ [][TurnBegins => ~TurnInFlight /\ ~OpeningInFlight]_vars

\* a second turn is in flight on a session whose opening cycle was run
C1_Witness ==
    /\ loaded = <<>>
    /\ lpc = "t_gen"
    /\ Len(dbTranscript) >= 3


\* C2 as stated: the lock is held exactly while some cycle, the
\* opening-question cycle included, is in flight.
C2_LockIffAnyCycle ==
    is_processing_llm <=> (OpeningInFlight \/ TurnInFlight)

\* C2 amended: the lock is held exactly while a transcript-driven cycle is in
\* flight; it stays clear during the opening-question cycle of start_viva.
C2_LockIffTurnCycle ==
    /\ is_processing_llm <=> TurnInFlight
    /\ OpeningInFlight => ~is_processing_llm

\* a turn holds the lock on a session whose opening cycle ran without it
C2_Witness ==
    /\ loaded = <<>>
    /\ wsOut # <<>>
    /\ lpc = "t_tts"
    /\ is_processing_llm

\* the frames handle_audio_chunk had to drop: lock held or recognizer not
\* connected at receipt
Dropped ==
    {delivered[i].frame : i \in {j \in DOMAIN delivered :
        delivered[j].lock \/ ~delivered[j].connected}}

\* C3: a frame received while the lock is held or the recognizer is not
\* connected never reaches the recognizer, neither at once nor later, and is
\* not kept by the connection task.
C3_DroppedNeverForwarded ==
    \A f \in Dropped : f \notin Range(asrRecvd) /\ cframe # f

\* a frame was dropped under the lock, and the lock is clear again
C3_Witness ==
    /\ \E i \in DOMAIN delivered : delivered[i].lock /\ delivered[i].type = "bytes"
    /\ ~is_processing_llm
    /\ lpc = "listen"
    /\ cpc = "loop"

\* the frames the transport delivered while the lock was clear and the
\* recognizer connected
Forwardable ==
    {delivered[i].frame : i \in {j \in DOMAIN delivered :
        ~delivered[j].lock /\ delivered[j].connected}}

\* C4 as stated: every frame delivered while Listening with the lock clear
\* and the recognizer connected is forwarded, and the recognizer receives the
\* forwarded frames in the order sent, none twice.
C4_EveryFrameForwardedInOrder ==
    /\ \A f \in Forwardable : f \in Range(asrRecvd) \/ cframe = f
    /\ \A i, j \in DOMAIN asrRecvd : i < j => asrRecvd[i] < asrRecvd[j]

\* C5: the store lists the messages in the order save_message_to_db was
\* called (the order of their timestamps), which is the order of the
\* in-memory transcript; every stored message is in the in-memory transcript.
C5_StoreOrderIsCallOrder ==
    viva_session =>
        /\ Increasing(transcript)
        /\ Increasing(dbTranscript)
        /\ Range(dbTranscript) \subseteq Range(transcript)

\* three saves on one connection, all of them in the store
C5_Witness ==
    /\ loaded = <<>>
    /\ Len(dbTranscript) >= 3
    /\ dbTranscript = transcript


\* the session was resumed: initialize() loaded a non-empty transcript
Resumed == viva_session /\ loaded # <<>>

\* no message was created on this connection yet (no final transcript
\* has started a turn)
NoTurnYet == now = Len(loaded) + 1

\* a message of the opening-question form: the placeholder evaluation
IsOpening(m) ==
    /\ m.speaker = "ai"
    /\ m.ai_evaluation # NoEvaluation
    /\ m.ai_evaluation[1].evaluation = Placeholder

\* C6: on a resumed session the first-question generator is never awaited,
\* no opening message is added to the in-memory or stored transcript, no
\* audio of an opening message is sent, and until a final transcript starts
\* a turn both transcripts stay as loaded and nothing is sent.
C6_ResumeNeverReissuesOpening ==
    Resumed =>
        /\ ~OpeningInFlight
        /\ \A i \in DOMAIN transcript :
               i > Len(loaded) => ~IsOpening(transcript[i])
        /\ \A i \in DOMAIN dbTranscript :
               i > Len(loaded) => ~IsOpening(dbTranscript[i])
        /\ \A i \in DOMAIN wsOut : wsOut[i].of > Len(loaded) + 1
        /\ NoTurnYet =>
               /\ transcript = loaded
               /\ dbTranscript = loaded
               /\ wsOut = <<>>
               /\ log = <<>>

\* a resumed session is listening and has forwarded audio, no turn yet
C6_Witness ==
    /\ Resumed
    /\ cpc = "loop"
    /\ NoTurnYet
    /\ asrRecvd # <<>>

\* the latest turn ended because the dialogue generator raised
GeneratorFailedTurn ==
    /\ Len(log) >= 2
    /\ log[Len(log) - 1] = "generator_failed"

\* the step in which get_ai_evaluation raises
GeneratorFails == lpc = "t_gen" /\ log' # log /\ GeneratorFailedTurn'

\* C7: after a turn that ended on a generator failure the student's message
\* of that turn is in the store exactly once and is its last entry (no
\* examiner message followed), the lock is clear and no turn is in flight;
\* the failing step returns the listener to its loop, clears the lock and
\* appends nothing.
C7_GeneratorFailureKeepsAnswer ==
    /\ [](GeneratorFailedTurn =>
            /\ lmessage = StudentMessage(student_answer, lmessage.timestamp)
            /\ Cardinality({i \in DOMAIN dbTranscript :
                              dbTranscript[i] = lmessage}) = 1
            /\ dbTranscript[Len(dbTranscript)] = lmessage
            /\ ~is_processing_llm
            /\ ~TurnInFlight)
    /\ [][GeneratorFails =>
            /\ lpc' = "listen"
            /\ ~is_processing_llm'
            /\ dbTranscript' = dbTranscript
            /\ transcript' = transcript]_vars

\* the second turn of a connection ended on a generator failure and the
\* listener is back in its loop
C7_Witness ==
    /\ GeneratorFailedTurn
    /\ lpc = "listen"
    /\ cpc = "loop"
    /\ Len(dbTranscript) >= 4

\* C8 as stated: once the endpoint has run disconnect(), the session is
\* completed in the store and the recognizer connection is closed, also when
\* a teardown step failed.
C8_DisconnectCompletesAndCloses ==
    cpc = "terminated" =>
        /\ dbStatus = "completed"
        /\ ~asrOpen
        /\ ~is_connected
        /\ ~asr_ws

\* C9: on a new session the store never holds more than one opening message;
\* once start_viva is past its save, and whenever anything was sent to the
\* client, the first stored message is the opening message (placeholder
\* evaluation, the question as text) and the first thing sent is its audio
\* or its end marker.
C9_OpeningPersistedBeforeAudio ==
    (viva_session /\ loaded = <<>>) =>
        /\ Cardinality({i \in DOMAIN dbTranscript :
                          IsOpening(dbTranscript[i])}) <= 1
        /\ (cpc \in {"sv_tts", "loop", "transcribe"} \/ wsOut # <<>>) =>
               /\ dbTranscript # <<>>
               /\ IsOpening(dbTranscript[1])
               /\ dbTranscript[1].text
                    = <<dbTranscript[1].ai_evaluation[1].new_question>>
               /\ Cardinality({i \in DOMAIN dbTranscript :
                                 IsOpening(dbTranscript[i])}) = 1
        /\ wsOut # <<>> => wsOut[1].of = dbTranscript[1].timestamp

\* the opening question's audio is being sent
C9_Witness ==
    /\ viva_session
    /\ loaded = <<>>
    /\ cpc = "sv_tts"
    /\ csent >= 1

\* the steps of a transcript-driven turn in which nothing fails, with k
\* audio frames
TurnOrder(k) ==
    <<"lock_set", "student_persisted", "generator_invoked",
      "generator_returned", "examiner_persisted">>
    \o [i \in 1..k |-> "audio"] \o <<"speech_end", "lock_cleared">>

IsPrefix(p, q) == Len(p) <= Len(q) /\ SubSeq(q, 1, Len(p)) = p

FailureEvents ==
    {"student_persist_failed", "generator_failed", "examiner_persist_failed",
     "synthesizer_failed", "send_failed", "cancelled"}

\* the latest cycle is a transcript-driven turn in which nothing has failed
CleanTurn ==
    /\ log # <<>>
    /\ log[1] = "lock_set"
    /\ Range(log) \cap FailureEvents = {}

\* C10: in a turn in which nothing fails the steps come in the order lock
\* set, student persisted, generator invoked, examiner persisted, audio
\* frames, end marker, lock cleared: the lock is held from the first step to
\* the last, the student's message is the store's last entry while the
\* generator runs, the examiner's message is the store's last entry before
\* any audio of it is sent, and the marker follows that message's audio.
C10_TurnStepOrder ==
    CleanTurn =>
        /\ \E k \in 0..MaxChunks : IsPrefix(log, TurnOrder(k))
        /\ is_processing_llm <=> log[Len(log)] # "lock_cleared"
        /\ lpc = "t_gen" =>
               /\ dbTranscript[Len(dbTranscript)]
                    = StudentMessage(student_answer, lmessage.timestamp)
               /\ lmessage = dbTranscript[Len(dbTranscript)]
        /\ "examiner_persisted" \in Range(log) =>
               /\ dbTranscript[Len(dbTranscript)] = lmessage
               /\ lmessage.speaker = "ai"
               /\ dbTranscript[Len(dbTranscript) - 1].speaker = "user"
               /\ dbTranscript[Len(dbTranscript) - 1].text = <<student_answer>>
        /\ "audio" \in Range(log) \/ "speech_end" \in Range(log) =>
               /\ "examiner_persisted" \in Range(log)
               /\ wsOut[Len(wsOut)].of = lmessage.timestamp
        /\ "speech_end" \in Range(log) =>
               /\ wsOut[Len(wsOut)] = SpeechEnd(lmessage)
               /\ log[Len(log)] = "lock_cleared"

\* a turn ran through all its steps, with audio
C10_Witness ==
    /\ CleanTurn
    /\ log[Len(log)] = "lock_cleared"
    /\ "audio" \in Range(log)
    /\ lpc = "listen"


\* positions of the connection task on the Disconnecting path
DisconnectStates == {"disconnect", "aexit", "mark_completed", "terminated"}

CollaboratorFailures ==
    {"student_persist_failed", "generator_failed", "examiner_persist_failed",
     "synthesizer_failed"}

\* the step in which the generator, the store or the synthesizer fails in a
\* cycle
CollaboratorFails ==
    \E e \in CollaboratorFailures : e \in Range(log') /\ e \notin Range(log)

\* C11 as stated: a generator, store or synthesizer failure inside any cycle,
\* the opening cycle included, leaves the lock clear, does not put the
\* connection task on the Disconnecting path, does not close the client
\* connection and leaves the session status as it was.
C11_CycleFailureIsRecoverable ==
    [][CollaboratorFails =>
          /\ ~is_processing_llm'
          /\ cpc \notin DisconnectStates => cpc' \notin DisconnectStates
          /\ wsState' = wsState
          /\ dbStatus' = dbStatus]_vars

\* C12 as stated: no generate/persist/synthesize cycle is ever cut off by the
\* teardown; each one ends by completing or by a failure of its own.
C12_CycleSurvivesDisconnect ==
    "cancelled" \notin Range(log)


\* C13 as stated: once the stored status is completed, the stored transcript
\* is never appended to again, by the connection that completed the session
\* or by a later one.
C13_CompletedTranscriptFrozen ==
    [][dbStatus = "completed" => dbTranscript' = dbTranscript]_vars


\* C14 as stated: while the dialogue generator is working on a turn, every
\* message of the history it was handed (the in-memory transcript) is present
\* in the stored transcript.
C14_HistoryIsStored ==
    lpc = "t_gen" => Range(transcript) \subseteq Range(dbTranscript)


\* initialize() has returned without creating the listener task, which it
\* creates only as the last step of a successful run
InitializationFailed == cpc # "accepted" /\ lpc = "none"

\* C15: when initialization fails (no store, session not found or invalid
\* identifier, recognizer connect failure) the connection task goes straight to
\* the policy-violation close (the client connection is closed with 1008
\* unless the client had already gone) and stays there; no question is
\* generated, no message is built or stored, nothing is sent to the client
\* and nothing to the recognizer.
C15_FailedInitializationDoesNothing ==
    InitializationFailed =>
        /\ cpc = "init_failed"
        /\ wsState \in {"closed_1008", "client_gone"}
        /\ log = <<>>
        /\ cmessage = NoMessage /\ lmessage = NoMessage
        /\ dbTranscript \in InitialTranscripts /\ dbStatus = "active"
        /\ wsOut = <<>>
        /\ asrRecvd = <<>> /\ ~asrOpen

C15_Witness ==
    /\ cpc = "init_failed"
    /\ viva_session /\ ~asr_ws
    /\ dbTranscript = <<>>
    /\ wsState = "closed_1008"


\* the step in which send_bytes or send_json raises
SendFails == "send_failed" \in Range(log') /\ "send_failed" \notin Range(log)

\* C16 as stated: a failed send to the client, in the opening cycle or inside
\* a transcript-driven turn, puts the connection task on the Disconnecting
\* path, and no turn begins on the connection after it.
C16_SendFailureDisconnects ==
    [][/\ SendFails => cpc' \in DisconnectStates
       /\ TurnBegins => "send_failed" \notin Range(log)]_vars


\* the step in which a frame reaches the recognizer session
FrameDelivered == Len(asrRecvd') = Len(asrRecvd) + 1

\* C17 as stated: no audio frame reaches the recognizer session at a moment
\* when the turn lock is held.
C17_NoDeliveryUnderLock ==
    [][FrameDelivered => ~is_processing_llm]_vars


\* a final transcript: the event on which _listen calls on_transcript
IsFinalTranscript(e) == e.type = "transcript" /\ e.text # ""

\* final transcripts emitted by the recognizer and not yet fully processed:
\* those waiting in its stream and the one whose turn is in flight
Outstanding ==
    Cardinality({i \in DOMAIN asrOut : IsFinalTranscript(asrOut[i])})
        + (IF TurnInFlight THEN 1 ELSE 0)

\* C18 as stated: at any time at most one final transcript is outstanding, so
\* none waits behind a turn that is in flight.
C18_OneTranscriptOutstanding ==
    Outstanding <= 1


\* the step in which the recognizer connection goes from open to closed
RecognizerCloses == asrOpen /\ ~asrOpen'

\* the step in which the stored status is set to completed
StatusCompleted == dbStatus # "completed" /\ dbStatus' = "completed"

\* C19: teardown order.  The recognizer connection is closed only after the
\* listener task has been cancelled, the status is set to completed only
\* after the recognizer connection has been closed, and so a session the
\* connection has completed never has its recognizer connection open.
C19_TeardownOrder ==
    /\ [][RecognizerCloses => cancelled /\ ~listener_task]_vars
    /\ [][StatusCompleted => cancelled /\ ~listener_task /\ ~asrOpen]_vars
    /\ [](dbStatus = "completed" => ~asrOpen /\ cancelled)

C19_Witness ==
    /\ dbStatus = "completed"
    /\ cpc = "terminated"
    /\ lpc = "cancelled"
    /\ ~asrOpen /\ ~is_connected


\* the examiner message of the latest cycle
CurrentMessage ==
    IF log # <<>> /\ log[1] = "lock_set" THEN lmessage ELSE cmessage

\* the latest cycle has come to its end
CycleOver ==
    /\ log # <<>>
    /\ IF log[1] = "lock_set" THEN lpc \notin TurnStates
                              ELSE cpc \notin OpeningStates

\* positions in what the client was sent of the end markers of message m
Markers(m) ==
    {i \in DOMAIN wsOut :
        wsOut[i].kind = "speech_end" /\ wsOut[i].of = m.timestamp}

\* what the client is sent comes message by message; nothing of a message
\* follows its marker (so the marker is after its last audio frame and there
\* is at most one), and a message that a later message follows has its
\* marker before anything of the later one
MarkerOrder ==
    \A i, j \in DOMAIN wsOut :
        i < j =>
            /\ wsOut[i].of <= wsOut[j].of
            /\ wsOut[i].kind = "speech_end" => wsOut[i].of < wsOut[j].of
            /\ wsOut[i].of < wsOut[j].of =>
                   \E k \in i..(j - 1) :
                       /\ wsOut[k].kind = "speech_end"
                       /\ wsOut[k].of = wsOut[i].of

\* C20 as stated: the markers are in order, and every examiner message for
\* which audio was forwarded has exactly one marker once its cycle is over.
C20_ExactlyOneMarker ==
    /\ MarkerOrder
    /\ (CycleOver /\ "audio" \in Range(log)) =>
           Cardinality(Markers(CurrentMessage)) = 1

\* C20, amended: the markers are in order and no message has more than one.
\* A message has its marker exactly when its synthesizer stream has come to
\* its end, by its final event or by an error in mid-stream, with every send
\* to the client accepted: a cycle that is over and did not end on a failed
\* send or a cancellation has sent the marker of its message once the message
\* was persisted, a cycle in which the synthesizer failed has sent it in the
\* same step, and a cycle that ended on a failed send or a cancellation has
\* sent none.
C20_MarkerWhenStreamEnds ==
    /\ MarkerOrder
    /\ log # <<>> =>
           /\ Cardinality(Markers(CurrentMessage))
                = (IF "speech_end" \in Range(log) THEN 1 ELSE 0)
           /\ "synthesizer_failed" \in Range(log) =>
                  /\ "speech_end" \in Range(log)
                  /\ wsOut[Len(wsOut)] = SpeechEnd(CurrentMessage)
           /\ (/\ CycleOver
               /\ "examiner_persisted" \in Range(log)
               /\ Range(log) \cap {"send_failed", "cancelled"} = {}) =>
                  "speech_end" \in Range(log)
           /\ Range(log) \cap {"send_failed", "cancelled"} # {} =>
                  "speech_end" \notin Range(log)

\* the synthesizer failed in the middle of a turn's reply, after a frame of it
\* was forwarded, and the reply's marker follows that frame; the opening
\* message's marker was sent before
C20_Witness ==
    /\ log # <<>> /\ log[1] = "lock_set"
    /\ "synthesizer_failed" \in Range(log)
    /\ lsent >= 1
    /\ Len(wsOut) >= 2
    /\ wsOut[Len(wsOut)] = SpeechEnd(lmessage)
    /\ wsOut[Len(wsOut) - 1] = AudioItem(lmessage)
    /\ cmessage # NoMessage
    /\ Markers(cmessage) # {}


\* the step in which a message is appended to the stored transcript
Persisted == Len(dbTranscript') = Len(dbTranscript) + 1

HasEvaluation(m) == m.ai_evaluation # NoEvaluation

\* C21 as stated: a message is stored with an evaluation only by the examiner
\* step of a transcript-driven turn; the opening message and the student
\* messages are stored without one.
C21_EvaluationOnlyFromTurns ==
    [][(Persisted /\ HasEvaluation(dbTranscript'[Len(dbTranscript')])) =>
          /\ lpc = "t_save_ai"
          /\ dbTranscript'[Len(dbTranscript')] = lmessage]_vars

\* C21, amended: in the stored transcript exactly the examiner messages carry
\* an evaluation and no student message does.  The opening message is stored
\* by start_viva with the generator's response attached, whose evaluation
\* text is the fixed placeholder and whose question is the message's text;
\* every other message stored with an evaluation is stored by the examiner
\* step of a transcript-driven turn.
C21_EvaluationOnExaminerMessages ==
    /\ [](\A i \in DOMAIN dbTranscript :
            /\ dbTranscript[i].speaker \in {"ai", "user"}
            /\ HasEvaluation(dbTranscript[i])
                 <=> dbTranscript[i].speaker = "ai")
    /\ [][(Persisted /\ HasEvaluation(dbTranscript'[Len(dbTranscript')])) =>
            \/ /\ lpc = "t_save_ai"
               /\ dbTranscript'[Len(dbTranscript')] = lmessage
            \/ /\ cpc = "sv_save"
               /\ dbTranscript = <<>>
               /\ dbTranscript'[1] = cmessage
               /\ cmessage.ai_evaluation[1].evaluation = Placeholder
               /\ cmessage.text
                    = <<cmessage.ai_evaluation[1].new_question>>]_vars

\* a new session after one full turn: opening message with the placeholder
\* evaluation, student message without, examiner message with the turn's
C21_Witness ==
    /\ loaded = <<>>
    /\ Len(dbTranscript) = 3
    /\ IsOpening(dbTranscript[1])
    /\ dbTranscript[2].speaker = "user"
    /\ ~HasEvaluation(dbTranscript[2])
    /\ dbTranscript[3].speaker = "ai"
    /\ HasEvaluation(dbTranscript[3])
    /\ dbTranscript[3].ai_evaluation[1].evaluation # Placeholder


\* the step in which a call of a turn fails (not a cancellation)
TurnCallFails ==
    /\ lpc \in TurnStates
    /\ \E e \in FailureEvents \ {"cancelled"} :
           e \in Range(log') /\ e \notin Range(log)

\* the step in which the listener takes a final transcript from the stream
FinalTranscriptRead ==
    /\ asrOut # <<>>
    /\ asrOut' = Tail(asrOut)
    /\ IsFinalTranscript(Head(asrOut))

\* the step in which an audio frame is handed to handle_audio_chunk
FrameHandled ==
    /\ Len(delivered') = Len(delivered) + 1
    /\ delivered'[Len(delivered')].type = "bytes"

\* C22: a turn never wedges the session.  Once the lock is set it is
\* eventually cleared, given that every call of the turn returns or fails.
\* A failing call ends its turn in the same step: the lock is clear, the
\* listener is back at its loop and the answer is not put back in the
\* stream; the generator is invoked at most once per turn.  From then on a
\* final transcript the listener reads starts a new turn, and an audio frame
\* handed to handle_audio_chunk with the lock clear and the recognizer
\* connected is forwarded.
C22_FailedTurnDoesNotWedge ==
    /\ is_processing_llm ~> ~is_processing_llm
    /\ [][TurnCallFails =>
            /\ ~is_processing_llm'
            /\ lpc' = "listen"
            /\ asrOut' = asrOut]_vars
    /\ [](Cardinality({i \in DOMAIN log : log[i] = "generator_invoked"}) <= 1)
    /\ [][FinalTranscriptRead => TurnBegins /\ is_processing_llm']_vars
    /\ [][(FrameHandled /\ ~is_processing_llm /\ CanSend(is_connected, asr_ws))
            => cframe' = nextFrame /\ cpc' = "transcribe"]_vars

\* a second turn is in flight after a first one that failed before an
\* examiner message was made: both frames were forwarded, and the second
\* answer, not the first, is with the generator
C22_Witness ==
    /\ lpc = "t_gen"
    /\ is_processing_llm
    /\ Len(transcript) >= 2
    /\ transcript[Len(transcript)] = lmessage
    /\ transcript[Len(transcript) - 1].speaker = "user"
    /\ Len(asrRecvd) = 2
    /\ ~delivered[2].lock


\* C23 as stated: the orchestrator of a connection is the only writer of its
\* session's stored transcript, so once it has loaded the session every
\* stored message is in its in-memory transcript.
C23_InMemoryHoldsStore ==
    viva_session => Range(dbTranscript) \subseteq Range(transcript)


\* C24: on a connection that is the session's only one, every examiner
\* message of the stored transcript but the first is directly preceded by a
\* student message, the one made in the same turn (made one tick before it);
\* so no examiner message is stored for a turn whose student message was
\* not, and no two examiner messages are adjacent.
C24_ExaminerFollowsStudent ==
    \A i \in DOMAIN dbTranscript :
        (i > 1 /\ dbTranscript[i].speaker = "ai") =>
            /\ dbTranscript[i - 1].speaker = "user"
            /\ dbTranscript[i - 1].timestamp = dbTranscript[i].timestamp - 1

\* a turn whose student message failed to persist left nothing in the store,
\* and a later full turn stored its student message and its examiner message
C24_Witness ==
    /\ lpc = "listen"
    /\ Len(dbTranscript) >= 3
    /\ dbTranscript[Len(dbTranscript)].speaker = "ai"
    /\ \E i \in DOMAIN transcript :
           /\ transcript[i].speaker = "user"
           /\ transcript[i] \notin Range(dbTranscript)


\* C25: no step taken while initialize() runs or after it has failed writes
\* to the store or enters disconnect(): the document, if there is one, keeps
\* the status and the transcript it had when the connection was accepted,
\* and the listener task is never cancelled because none exists.
C25_FailedInitializationLeavesStore ==
    [][(cpc = "accepted" \/ InitializationFailed) =>
          /\ UNCHANGED storeVars
          /\ cpc' \notin DisconnectStates
          /\ ~cancelled']_vars

\* initialization failed on a session that exists and has a stored opening
\* question: the document is as it was
C25_Witness ==
    /\ cpc = "init_failed"
    /\ session_collection /\ ~viva_session
    /\ dbExists
    /\ dbTranscript = <<StoredOpening>>
    /\ dbStatus = "active"


\* _listen has left its loop through its except clause
ListenerEnded == lpc = "ended"

\* the step in which the receive loop takes an audio frame
FrameReceived == Len(delivered') = Len(delivered) + 1

\* the step in which the connection task enters the teardown
TeardownBegins == cpc \notin DisconnectStates /\ cpc' \in DisconnectStates

\* C26 as stated: once the listener has ended with an error the recognizer
\* stays marked not connected and no turn starts, a frame received from then
\* on is dropped (not kept for forwarding, not delivered) and the connection
\* task stays where it is, and the teardown begins only when the transport
\* has disconnected.
C26_EndedListenerDropsAudio ==
    [][ListenerEnded =>
          /\ lpc' = "ended"
          /\ ~is_connected'
          /\ FrameReceived =>
                 /\ cframe' = cframe
                 /\ cpc' = cpc
                 /\ asrRecvd' = asrRecvd
          /\ TeardownBegins => wsState # "open"]_vars


\* the step in which the send of a frame to the recognizer ends without the
\* frame having been delivered
SendToRecognizerFails ==
    /\ cpc = "transcribe"
    /\ cpc' # "transcribe"
    /\ asrRecvd' = asrRecvd

\* C27: a failed send of a frame to the recognizer changes nothing but the
\* connection task's position, which is back at the receive loop: the lock,
\* both transcripts, the status, the recognizer's connected mark and the
\* client connection are as before.  The frame is forgotten: the frame being
\* sent is always the one received last, and no frame is delivered twice.
C27_FailedFrameIsSwallowed ==
    /\ [][SendToRecognizerFails =>
            /\ cpc' = "loop"
            /\ cframe' = 0
            /\ UNCHANGED <<storeVars, orchVars, asrVars, wsState, nextFrame>>]_vars
    /\ [](/\ cframe \in {0, nextFrame - 1}
          /\ \A i, j \in DOMAIN asrRecvd :
                 asrRecvd[i] = asrRecvd[j] => i = j)

\* the first frame was accepted for forwarding and its send failed; the loop
\* went on and the second frame reached the recognizer
C27_Witness ==
    /\ cpc = "loop"
    /\ asrRecvd = <<2>>
    /\ delivered[1].type = "bytes"
    /\ ~delivered[1].lock
    /\ delivered[1].connected
    /\ dbStatus = "active"

=============================================================================
